---------------------------- MODULE Spec2Model ----------------------------
(***************************************************************************)
(* Model of the GSVD engine of graphembed:                                 *)
(*   src/src/atp/gsvd.rs      GSvd, GSvdResult, check_orthogonality, tests *)
(*   src/src/atp/randgsvd.rs  GSvdApprox, its own GSvdResult               *)
(*                                                                         *)
(* Floating point values are fixed-point integers with unit Scale, so that *)
(* x*x + y*y is computed in units of Scale*Scale and the tolerance 1.0E-5   *)
(* becomes (Scale*Scale) \div EpsilInv.  Matrices are sequences of rows.   *)
(* The dense primitive (lapacke::sggsvd3 / dggsvd3) and the range          *)
(* approximator (annembed RangeApprox) are external: what they hand back   *)
(* is drawn nondeterministically, inside and outside their documented      *)
(* contract.                                                               *)
(***************************************************************************)
EXTENDS Integers, Sequences, FiniteSets, TLC

VARIABLES
    pc,         \* position of the caller: idle, gsvd_built, approx_built, test_decoded, done
    mats,       \* the caller's two matrices: dimensions and buffer content
    prob,       \* the constructed problem (GSvd or GSvdApprox), or NoProb
    log_debug,  \* log_enabled!(Debug)
    raw,        \* what the dense primitive left in the buffers the code reads back
    prim_calls, \* arguments of every call to the dense primitive, in order
    approx_calls, \* every range approximation run: matrix, budget, result
    trace,      \* external steps executed so far, in order
    res,        \* the GSvdResult being filled
    decode,     \* gsvd.rs init_from_lapack: none | completed | where it panicked
    outcome,    \* none | ok | err | panic
    errmsg,     \* message of the Err value or of the panic
    uv_check,   \* result of check_uv_orthogonal in the tests: none | Ok | Err
    cli,        \* embed.rs: one run of main, from its command line to its end
    iso         \* pava.rs: one call of the isotonic regression code

vars == <<pc, mats, prob, log_debug, raw, prim_calls, approx_calls, trace, res,
          decode, outcome, errmsg, uv_check, cli, iso>>

---------------------------------------------------------------------------
(* Bounds of the model *)

\* largest number of rows of the first matrix
MaxM == 2
\* largest number of columns
MaxN == 2
\* largest number of rows of the second matrix
MaxP == 1
\* largest rank-partition integer k or l the primitive writes
MaxKL == 2
\* largest absolute value of the primitive's status code
MaxInfo == 2
\* number of distinct approximation budgets
MaxBudget == 2

---------------------------------------------------------------------------
(* Numbers *)

\* fixed-point unit: the value 1.0
Scale == 1000
\* 1 / 1.0E-5
EpsilInv == 100000
\* 1.0E-5 in units of Scale*Scale
Epsil == (Scale * Scale) \div EpsilInv

Abs(x) == IF x < 0 THEN -x ELSE x

Min(x, y) == IF x <= y THEN x ELSE y

\* Option<T>
None == <<>>

Some(x) == <<x>>

RECURSIVE Sum(_, _)
Sum(f, n) == IF n = 0 THEN 0 ELSE f[n] + Sum(f, n - 1)

---------------------------------------------------------------------------
(* Matrices of the orthogonal factors *)

\* Array2::zeros((m, m))
Zeros(m) == [i \in 1..m |-> [j \in 1..m |-> 0]]

Identity(m) == [i \in 1..m |-> [j \in 1..m |-> IF i = j THEN Scale ELSE 0]]

\* a plane rotation by the angle with cosine 0.6 and sine 0.8 (m >= 2)
Rotation(m) ==
    [i \in 1..m |-> [j \in 1..m |->
        IF i <= 2 /\ j <= 2
        THEN (IF i = j THEN (3 * Scale) \div 5
              ELSE IF i < j THEN (4 * Scale) \div 5 ELSE -((4 * Scale) \div 5))
        ELSE IF i = j THEN Scale ELSE 0]]

\* the factor matrices the primitive may leave in an m x m buffer
Factors(m) == {Identity(m), Zeros(m)} \cup (IF m >= 2 THEN {Rotation(m)} ELSE {})

\* u.dot(&u.t()) at (i, j), in units of Scale*Scale
DotT(u, i, j) == Sum([c \in 1..Len(u) |-> u[i][c] * u[j][c]], Len(u))

\* gsvd.rs check_orthogonality: Err at the first diagonal entry away from 1
\* or off-diagonal entry away from 0 by more than epsil
check_orthogonality(u) ==
    IF \E i \in 1..Len(u) :
          \/ Abs(Scale * Scale - DotT(u, i, i)) > Epsil
          \/ \E j \in 1..(i - 1) : Abs(DotT(u, i, j)) > Epsil
    THEN "Err" ELSE "Ok"

\* GSvdResult::new
NewResult == [v1 |-> None, v2 |-> None, s1 |-> None, s2 |-> None]

\* GSvdResult::check_uv_orthogonal
check_uv_orthogonal(r) ==
    IF r.v1 # None /\ check_orthogonality(r.v1[1]) = "Err" THEN "Err"
    ELSE IF r.v2 # None /\ check_orthogonality(r.v2[1]) = "Err" THEN "Err"
    ELSE "Ok"

---------------------------------------------------------------------------
(* The decoder: gsvd.rs GSvdResult::init_from_lapack *)

\* x*x + y*y for one decoded pair, in units of Scale*Scale (line 147)
SumSquares(x, y) == x * x + y * y

\* the assertion of line 151 without .abs()
EpsilOk_NoAbs(x, y) == Scale * Scale - SumSquares(x, y) < Epsil

\* the assertion of line 151 for one decoded pair
EpsilOk(x, y) == Abs(Scale * Scale - SumSquares(x, y)) < Epsil

\* the end taken as the inclusive bound k+l-1 of the comment of line 120
SliceEnd_Inclusive(m, k, l) == IF m - k - l >= 0 THEN k + l - 1 ELSE m

\* the end taken as k+l in both branches
SliceEnd_NoBranch(m, k, l) == k + l

\* end (exclusive, 0-based) of the decoded index range (lines 118-133)
SliceEnd(m, k, l) == IF m - k - l >= 0 THEN k + l ELSE m

\* alpha.slice(s![..to])
Slice_FromZero(a, from, to) == SubSeq(a, 1, to)

\* alpha.slice(s![from..to]) with 0-based from, exclusive to; the caller has
\* checked from <= to <= Len(a)
Slice(a, from, to) == SubSeq(a, from + 1, to)

\* the debug dump of lines 135-145 indexes alpha and beta on 0..k and on
\* min(k+l, m)..n without a bounds check of its own
DumpPanics(m, n, k, l, alpha, beta) ==
    \E i \in (0..(k - 1)) \cup (Min(k + l, m)..(n - 1)) :
        i >= Len(alpha) \/ i >= Len(beta)

\* the loop started one index late
NonSorted_SkipFirst(m, k, l, alpha) ==
    \E i \in (k + 2)..(Min(m, k + l) - 1) : alpha[i + 1] > alpha[i]

\* the loop of lines 166-171 over 0-based i in k+1..min(m, k+l)
NonSorted(m, k, l, alpha) ==
    \E i \in (k + 1)..(Min(m, k + l) - 1) : alpha[i + 1] > alpha[i]

\* The state of self when the function returns or panics.  completed tells
\* which; at names the assertion, slice or panic that stopped it.
init_from_lapack(m, n, p, u, v, k, l, alpha, beta, dbg) ==
    LET stop(at, s1, s2) ==
            [completed |-> FALSE, at |-> at,
             v1 |-> Some(u), v2 |-> Some(v), s1 |-> s1, s2 |-> s2]
        to == SliceEnd(m, k, l)
        s1_v == Slice(alpha, k, to)
        s2_v == Slice(beta, k, to)
    IN  IF ~(m >= 0) THEN stop("assert m >= 0", None, None)
        ELSE IF ~(l >= 0) THEN stop("assert l >= 0", None, None)
        ELSE IF ~(k >= 0) THEN stop("assert k >= 0", None, None)
        ELSE IF m - k - l >= 0 /\ ~(l > 0) THEN stop("assert l > 0", None, None)
        ELSE IF m - k - l < 0 /\ ~(m >= k) THEN stop("assert m >= k", None, None)
        ELSE IF to > Len(alpha) \/ to > Len(beta)
             THEN stop("slice out of bounds", None, None)
        ELSE IF dbg /\ DumpPanics(m, n, k, l, alpha, beta)
             THEN stop("index out of bounds", None, None)
        ELSE IF \E i \in 1..Len(s1_v) : ~EpsilOk(s1_v[i], s2_v[i])
             THEN stop("assert epsil < 1.0E-5", None, None)
        ELSE IF NonSorted(m, k, l, alpha)
             THEN stop("non sorted alpha", Some(s1_v), Some(s2_v))
        ELSE [completed |-> TRUE, at |-> "",
              v1 |-> Some(u), v2 |-> Some(v),
              s1 |-> Some(s1_v), s2 |-> Some(s2_v)]

\* randgsvd.rs GSvdResult::init_from_lapack: panic!("not yet implemented")
approx_init_from_lapack(u, v, k, l, alpha, beta) ==
    [completed |-> FALSE, at |-> "not yet implemented",
     v1 |-> None, v2 |-> None, s1 |-> None, s2 |-> None]

---------------------------------------------------------------------------
(* The environment: caller's matrices, the dense primitive, the approximator *)

\* a caller's matrix: its dimensions and whether its buffer still holds the
\* caller's data
Matrix(rows, cols) == [rows |-> rows, cols |-> cols, data |-> "input"]

\* the scalar types F a problem may be instantiated with: f32, f64, and any
\* other type given the traits Float + Lapack + Scalar
ScalarTypes == {"f32", "f64", "other"}

\* the status codes the primitive may return
Statuses == (-MaxInfo)..MaxInfo

\* (alpha[i], beta[i]) as the primitive may write them: the cosine/sine
\* pairs (1, 0) and (0.6, 0.8), a pair whose squares sum to 1 + 1.6E-5, a
\* pair with an entry above 1, and a pair with a negative entry
CoeffPairs ==
    {<<Scale, 0>>, <<(3 * Scale) \div 5, (4 * Scale) \div 5>>,
     <<Scale, 4>>, <<Scale + 1, 0>>, <<-Scale, 0>>}

\* What a call of sggsvd3 / dggsvd3 on an (m x n, p x n) pair leaves in the
\* buffers the caller reads back: the status, k, l, the alen entries of alpha
\* and beta visible through the caller's slices, and U, V.  With a nonzero
\* status the buffers are as allocated.
PrimitiveOutputs(m, p, alen) ==
    {[ires |-> 0, k |-> k, l |-> l,
      alpha |-> [i \in 1..alen |-> ab[i][1]],
      beta |-> [i \in 1..alen |-> ab[i][2]],
      u |-> u, v |-> v] :
        k \in 0..MaxKL, l \in 0..MaxKL, ab \in [1..alen -> CoeffPairs],
        u \in Factors(m), v \in Factors(p)}
    \cup
    {[ires |-> st, k |-> 0, l |-> 0,
      alpha |-> [i \in 1..alen |-> 0], beta |-> [i \in 1..alen |-> 0],
      u |-> Zeros(m), v |-> Zeros(p)] : st \in Statuses \ {0}}

\* before any primitive call
NoRaw == [ires |-> 0, k |-> 0, l |-> 0, alpha |-> <<>>, beta |-> <<>>,
          u |-> <<>>, v |-> <<>>]

NoProb == [kind |-> "none"]

\* the buffer handed to the primitive taken to be a copy of the matrix
Overwritten_Copy(mat) == mat

\* no run of main, no call of the isotonic regression
NoCli == [pc |-> "none"]

NoIso == [pc |-> "none"]

\* the primitive overwrites the buffers of A and B it is handed
Overwritten(mat) ==
    IF mat.rows * mat.cols > 0 THEN [mat EXCEPT !.data = "overwritten"] ELSE mat

\* a caller's matrix after the primitive ran on its buffer and returned ires:
\* with a negative status (an illegal argument) the primitive returns before
\* it writes
AfterPrimitive(mat, ires) == IF ires >= 0 THEN Overwritten(mat) ELSE mat

\* arguments of one primitive call
PrimArgs(name, m, n, p, lda, ldb, ldu, ldv, ldq, alen) ==
    [fn |-> name, jobu |-> "U", jobv |-> "V", jobq |-> "N",
     m |-> m, n |-> n, p |-> p,
     lda |-> lda, ldb |-> ldb, ldu |-> ldu, ldv |-> ldv, ldq |-> ldq,
     alpha_len |-> alen]

Init ==
    /\ pc = "idle"
    /\ mats \in {[a |-> Matrix(m, n), b |-> Matrix(p, nb)] :
                    m \in 0..MaxM, n \in 0..MaxN, p \in 0..MaxP, nb \in 0..MaxN}
    /\ prob = NoProb
    /\ log_debug \in BOOLEAN
    /\ raw = NoRaw
    /\ prim_calls = <<>>
    /\ approx_calls = <<>>
    /\ trace = <<>>
    /\ res = NewResult
    /\ decode = "none"
    /\ outcome = "none"
    /\ errmsg = ""
    /\ uv_check = "none"
    /\ cli = NoCli
    /\ iso = NoIso

---------------------------------------------------------------------------
(* gsvd.rs: GSvd *)

\* the check made on dim().0
GSvdNewRejects_Rows(a, b) == a.rows # b.rows

\* GSvd::new (lines 263-271): true when the construction panics
GSvdNewRejects(a, b) == a.cols # b.cols

GSvdNew ==
    /\ pc = "idle"
    /\ \E F \in ScalarTypes :
        IF GSvdNewRejects(mats.a, mats.b)
        THEN /\ pc' = "done"
             /\ outcome' = "panic"
             /\ errmsg' = "Error constructiing Gsvd problem"
             /\ prob' = prob
        ELSE /\ pc' = "gsvd_built"
             /\ prob' = [kind |-> "GSvd", F |-> F, opt_params |-> None]
             /\ UNCHANGED <<outcome, errmsg>>
    /\ UNCHANGED <<cli, iso>>
    /\ UNCHANGED <<mats, log_debug, raw, prim_calls, approx_calls, trace, res,
                   decode, uv_check>>

\* the dispatch with the two TypeId tests exchanged
PrimitiveFor_Swapped(F) ==
    IF F = "f32" THEN "dggsvd3" ELSE IF F = "f64" THEN "sggsvd3" ELSE "none"

\* the dispatch on TypeId::of::<F>() (lines 326, 367, 405): the primitive
\* called for F, "none" for the final else
PrimitiveFor(F) ==
    IF F = "f32" THEN "sggsvd3" ELSE IF F = "f64" THEN "dggsvd3" ELSE "none"

\* the status 1 not handled
GsvdStatusError_NoConvergenceCase(F, ires) ==
    IF ires < 0
    THEN Some("argument " \o ToString(-ires) \o " had an illegal value")
    ELSE None

\* the raw status formatted instead of -ires
GsvdStatusError_RawCode(F, ires) ==
    IF ires = 1
    THEN Some(IF F = "f32" THEN "lapack for f64 failed to converge"
              ELSE "lapack for f32 failed to converge")
    ELSE IF ires < 0
    THEN Some("argument " \o ToString(ires) \o " had an illegal value")
    ELSE None

\* the message of the Err returned for a nonzero status (lines 357-362 for
\* f32, 396-401 for f64), None when the status is not handled
GsvdStatusError(F, ires) ==
    IF ires = 1
    THEN Some(IF F = "f32" THEN "lapack for f64 failed to converge"
              ELSE "lapack for f32 failed to converge")
    ELSE IF ires < 0
    THEN Some("argument " \o ToString(-ires) \o " had an illegal value")
    ELSE None

\* GSvd::do_gsvd (lines 288-410)
\* the primitive called a second time after a failure status
PrimitiveCalls_Retry(args, ires) ==
    IF ires # 0 THEN <<args, args>> ELSE <<args>>

\* the calls one do_gsvd makes to the primitive, given the status the first
\* returns: each branch holds one call, followed by the status tests, which
\* decode or return (lines 336-362, 377-401)
PrimitiveCalls(args, ires) == <<args>>

do_gsvd ==
    /\ pc = "gsvd_built"
    /\ pc' = "done"
    /\ LET m == mats.a.rows
           n == mats.a.cols
           p == mats.b.rows
           F == prob.F
       IN  IF n # mats.b.cols
           THEN \* assert_eq!(a_nbcol, self.b.dim().1)
                /\ outcome' = "panic"
                /\ errmsg' = "assertion failed"
                /\ UNCHANGED <<mats, raw, prim_calls, trace, res, decode>>
           ELSE IF PrimitiveFor(F) = "none"
           THEN \* log::error!(...); panic!()
                /\ outcome' = "panic"
                /\ errmsg' = "explicit panic"
                /\ UNCHANGED <<mats, raw, prim_calls, trace, res, decode>>
           ELSE \E out \in PrimitiveOutputs(m, p, 0) :
                LET fn == PrimitiveFor(F)
                    dec == init_from_lapack(m, n, p, out.u, out.v, out.k, out.l,
                                            out.alpha, out.beta, log_debug)
                    err == GsvdStatusError(F, out.ires)
                IN  /\ prim_calls' = prim_calls \o PrimitiveCalls(
                            PrimArgs(fn, m, n, p, n, mats.b.cols, m, p, n, 0),
                            out.ires)
                    /\ mats' = [a |-> AfterPrimitive(mats.a, out.ires),
                                b |-> AfterPrimitive(mats.b, out.ires)]
                    /\ raw' = out
                    /\ IF out.ires = 0
                       THEN /\ trace' = trace \o <<fn, "init_from_lapack">>
                            /\ res' = [v1 |-> dec.v1, v2 |-> dec.v2,
                                       s1 |-> dec.s1, s2 |-> dec.s2]
                            /\ decode' = IF dec.completed THEN "completed" ELSE dec.at
                            /\ outcome' = IF dec.completed THEN "ok" ELSE "panic"
                            /\ errmsg' = dec.at
                       ELSE /\ trace' = Append(trace, fn)
                            /\ UNCHANGED <<res, decode>>
                            /\ outcome' = IF err # None THEN "err" ELSE "ok"
                            /\ errmsg' = IF err # None THEN err[1] ELSE ""
    /\ UNCHANGED <<cli, iso>>
    /\ UNCHANGED <<prob, log_debug, approx_calls, uv_check>>

---------------------------------------------------------------------------
(* gsvd.rs: the tests' helper and checks *)

\* tests::small_lapack_gsvd (lines 434-487), on the caller's two matrices
small_lapack_gsvd ==
    /\ pc = "idle"
    /\ LET m == mats.a.rows
           n == mats.a.cols
           p == mats.b.rows
       IN  IF n # mats.b.cols
           THEN \* assert_eq!(a_nbcol, b.dim().1)
                /\ pc' = "done"
                /\ outcome' = "panic"
                /\ errmsg' = "assertion failed"
                /\ UNCHANGED <<mats, raw, prim_calls, trace, res, decode>>
           ELSE \E out \in PrimitiveOutputs(m, p, n) :
                LET dec == init_from_lapack(m, n, p, out.u, out.v, out.k, out.l,
                                            out.alpha, out.beta, log_debug)
                IN  /\ prim_calls' = Append(prim_calls,
                            PrimArgs("dggsvd3", m, n, p, n, mats.b.cols, m, p, n, n))
                    /\ mats' = [a |-> AfterPrimitive(mats.a, out.ires),
                                b |-> AfterPrimitive(mats.b, out.ires)]
                    /\ raw' = out
                    /\ IF out.ires # 0
                       THEN \* assert!(1==0)
                            /\ trace' = Append(trace, "dggsvd3")
                            /\ UNCHANGED <<res, decode>>
                            /\ pc' = "done"
                            /\ outcome' = "panic"
                            /\ errmsg' = "assertion failed: 1 == 0"
                       ELSE /\ trace' = trace \o <<"dggsvd3", "init_from_lapack">>
                            /\ res' = [v1 |-> dec.v1, v2 |-> dec.v2,
                                       s1 |-> dec.s1, s2 |-> dec.s2]
                            /\ decode' = IF dec.completed THEN "completed" ELSE dec.at
                            /\ pc' = IF dec.completed THEN "test_decoded" ELSE "done"
                            /\ outcome' = IF dec.completed THEN "ok" ELSE "panic"
                            /\ errmsg' = dec.at
    /\ prob' = [kind |-> "test", F |-> "f64", opt_params |-> None]
    /\ UNCHANGED <<cli, iso>>
    /\ UNCHANGED <<log_debug, approx_calls, uv_check>>

\* tests::test_lapack_gsvd_array_1 / _2 (lines 505-506, 524-525):
\* let res = gsvdres.check_uv_orthogonal(); assert!(res.is_ok());
test_check_uv_orthogonal ==
    /\ pc = "test_decoded"
    /\ pc' = "done"
    /\ uv_check' = check_uv_orthogonal(res)
    /\ IF check_uv_orthogonal(res) = "Ok"
       THEN UNCHANGED <<outcome, errmsg>>
       ELSE /\ outcome' = "panic"
            /\ errmsg' = "assertion failed: res.is_ok()"
    /\ UNCHANGED <<cli, iso>>
    /\ UNCHANGED <<mats, prob, log_debug, raw, prim_calls, approx_calls, trace, res,
                   decode>>

---------------------------------------------------------------------------
(* randgsvd.rs: GSvdApprox *)

\* the approximation budgets (RangePrecision values) a caller may pass
Budgets == 1..MaxBudget

\* RangeApprox::get_approximator on a matrix: no basis, or an orthonormal
\* basis with the rows of the matrix and some number of columns
ApproxResults(mat) ==
    {None} \cup {Some([rows |-> mat.rows, cols |-> r]) : r \in 0..mat.rows}

\* the approximator of mat2 built with a precision of its own
ApproxCall_OwnBudget(which, budget, basis) ==
    [mat |-> which, budget |-> IF which = 2 THEN 1 ELSE budget, basis |-> basis]

\* one RangeApprox::new(mat, self.precision) followed by get_approximator
ApproxCall(which, budget, basis) ==
    [mat |-> which, budget |-> budget, basis |-> basis]

\* GSvdApprox::new (lines 145-149): no check of the dimensions
GSvdApproxNew ==
    /\ pc = "idle"
    /\ pc' = "approx_built"
    /\ \E F \in ScalarTypes, precision \in Budgets :
        prob' = [kind |-> "GSvdApprox", F |-> F, opt_params |-> None,
                 precision |-> precision]
    /\ UNCHANGED <<cli, iso>>
    /\ UNCHANGED <<mats, log_debug, raw, prim_calls, approx_calls, trace, res,
                   decode, outcome, errmsg, uv_check>>

\* line 171 copied to line 177 unchanged
ApproxFailureMessage_Copied(which) == "approximation of matrix 1 failed"

\* the Err of lines 171 and 177
ApproxFailureMessage(which) ==
    IF which = 1 THEN "approximation of matrix 1 failed"
    ELSE "approximation of matrix 2 failed"

\* the message of the Err returned for a nonzero status (lines 268-273 and
\* 307-312), None when the status is not handled there
ApproxStatusError(ires) ==
    IF ires = 1 THEN Some("lapack failed to converge")
    ELSE IF ires < 0
    THEN Some("argument " \o ToString(-ires) \o " had an illegal value")
    ELSE None

\* GSvdApprox::do_approx_gsvd (lines 165-322)
do_approx_gsvd ==
    /\ pc = "approx_built"
    /\ pc' = "done"
    /\ \E approx1_res \in ApproxResults(mats.a), approx2_res \in ApproxResults(mats.b) :
        LET call1 == ApproxCall(1, prob.precision, approx1_res)
            call2 == ApproxCall(2, prob.precision, approx2_res)
        IN
        IF approx1_res = None
        THEN /\ approx_calls' = Append(approx_calls, call1)
             /\ trace' = Append(trace, "range_approx_1")
             /\ outcome' = "err"
             /\ errmsg' = ApproxFailureMessage(1)
             /\ UNCHANGED <<raw, prim_calls>>
        ELSE IF approx2_res = None
        THEN /\ approx_calls' = approx_calls \o <<call1, call2>>
             /\ trace' = trace \o <<"range_approx_1", "range_approx_2">>
             /\ outcome' = "err"
             /\ errmsg' = ApproxFailureMessage(2)
             /\ UNCHANGED <<raw, prim_calls>>
        ELSE
            LET \* a = t(approx1_res) * mat1, b = t(approx2_res) * mat2
                a_nbrow == approx1_res[1].cols
                a_nbcol == mats.a.cols
                b_dim == <<approx2_res[1].cols, mats.b.cols>>
                F == prob.F
                fn == PrimitiveFor(F)
                reduced == <<"range_approx_1", "range_approx_2",
                             "reduce_1", "reduce_2">>
            IN  /\ approx_calls' = approx_calls \o <<call1, call2>>
                /\ IF a_nbcol # b_dim[2]
                   THEN \* assert_eq!(a_nbcol, b.dim().1)
                        /\ trace' = trace \o reduced
                        /\ outcome' = "panic"
                        /\ errmsg' = "assertion failed"
                        /\ UNCHANGED <<raw, prim_calls>>
                   ELSE IF fn = "none"
                   THEN \* log::error!(...); panic!()
                        /\ trace' = trace \o reduced
                        /\ outcome' = "panic"
                        /\ errmsg' = "explicit panic"
                        /\ UNCHANGED <<raw, prim_calls>>
                   ELSE \E out \in PrimitiveOutputs(a_nbrow, b_dim[1], 0) :
                        LET dec == approx_init_from_lapack(out.u, out.v, out.k, out.l,
                                                           out.alpha, out.beta)
                            err == ApproxStatusError(out.ires)
                        IN  /\ prim_calls' = Append(prim_calls,
                                    PrimArgs(fn, a_nbrow, a_nbcol, b_dim[1],
                                             a_nbcol, b_dim[1], a_nbrow, a_nbrow, 0, 0))
                            /\ raw' = out
                            /\ IF out.ires = 0
                               THEN /\ trace' = trace \o reduced \o <<fn, "init_from_lapack">>
                                    /\ outcome' = IF dec.completed THEN "err" ELSE "panic"
                                    /\ errmsg' = IF dec.completed THEN "not yet implemented"
                                                 ELSE dec.at
                               ELSE /\ trace' = trace \o reduced \o <<fn>>
                                    /\ outcome' = "err"
                                    /\ errmsg' = IF err # None THEN err[1]
                                                 ELSE "not yet implemented"
    /\ UNCHANGED <<cli, iso>>
    /\ UNCHANGED <<mats, prob, log_debug, res, decode, uv_check>>

---------------------------------------------------------------------------

Next ==
    \/ GSvdNew
    \/ do_gsvd
    \/ small_lapack_gsvd
    \/ test_check_uv_orthogonal
    \/ GSvdApproxNew
    \/ do_approx_gsvd

Spec == Init /\ [][Next]_vars

---------------------------------------------------------------------------
(* Claims *)

\* the decoder's inputs in the current state
DecM == mats.a.rows

DecN == mats.a.cols

DecK == raw.k

DecL == raw.l

\* gsvd.rs init_from_lapack has run on the primitive's output
DecoderRan == decode # "none"

\* the primitive's documented output: alpha and beta hold n entries and
\* k + l <= n
RawInContract ==
    /\ Len(raw.alpha) = DecN
    /\ Len(raw.beta) = DecN
    /\ DecK + DecL <= DecN

\* |a*a + b*b - 1| < 1e-5
WithinTolerance(a, b) == Abs(a * a + b * b - Scale * Scale) < Epsil

\* the pairs at 0-based indices [from, to) pass validation
PairsPass(from, to) ==
    \A i \in (from + 1)..to : WithinTolerance(raw.alpha[i], raw.beta[i])

\* alpha is non-increasing on the 0-based index range [from, to)
NonIncreasing(from, to) ==
    \A i \in (from + 2)..to : raw.alpha[i] <= raw.alpha[i - 1]

\* C1 (as stated): for every raw primitive output with 0 <= k, 0 <= l and
\* m - k - l >= 0 (l = 0 included) whose decoded pairs pass validation,
\* init_from_lapack completes and sets s1 = alpha[k..k+l), s2 = beta[k..k+l).
C1_AsStated ==
    (/\ DecoderRan /\ RawInContract
     /\ DecM - DecK - DecL >= 0
     /\ PairsPass(DecK, DecK + DecL))
    => /\ decode = "completed"
       /\ res.s1 = Some(SubSeq(raw.alpha, DecK + 1, DecK + DecL))
       /\ res.s2 = Some(SubSeq(raw.beta, DecK + 1, DecK + DecL))

\* C1 (amended): for every raw primitive output with 0 <= k, 1 <= l and
\* m - k - l >= 0 whose decoded pairs pass validation and whose alpha is
\* non-increasing on [k, k+l), init_from_lapack completes and sets
\* s1 = alpha[k..k+l) and s2 = beta[k..k+l), element for element.
C1_DecodeFullRange ==
    (/\ DecoderRan /\ RawInContract
     /\ DecL >= 1
     /\ DecM - DecK - DecL >= 0
     /\ PairsPass(DecK, DecK + DecL)
     /\ NonIncreasing(DecK, DecK + DecL))
    => /\ decode = "completed"
       /\ res.s1 = Some(SubSeq(raw.alpha, DecK + 1, DecK + DecL))
       /\ res.s2 = Some(SubSeq(raw.beta, DecK + 1, DecK + DecL))

\* a decode of the range [1, 2) of a two-column problem has completed
C1_Witness ==
    /\ decode = "completed" /\ RawInContract
    /\ DecM - DecK - DecL >= 0
    /\ DecK = 1 /\ DecL = 1
    /\ res.s1 = Some(<<raw.alpha[2]>>)
    /\ raw.alpha[1] # raw.alpha[2]

\* C2: for every raw primitive output with 0 <= k <= m and m - k - l < 0
\* whose decoded pairs pass validation, init_from_lapack sets
\* s1 = alpha[k..m) and s2 = beta[k..m); entries at indices m and beyond are
\* never copied into the result.
C2_DecodeTruncatedRange ==
    (/\ DecoderRan /\ RawInContract
     /\ DecK <= DecM
     /\ DecM - DecK - DecL < 0
     /\ PairsPass(DecK, DecM))
    => /\ res.s1 = Some(SubSeq(raw.alpha, DecK + 1, DecM))
       /\ res.s2 = Some(SubSeq(raw.beta, DecK + 1, DecM))
       /\ Len(res.s1[1]) = DecM - DecK
       /\ Len(res.s2[1]) = DecM - DecK

\* one pair decoded out of k + l = 2, the pair at index m = 1 left out
C2_Witness ==
    /\ decode = "completed" /\ RawInContract
    /\ DecM = 1 /\ DecK = 0 /\ DecL = 2
    /\ res.s1 = Some(<<raw.alpha[1]>>)
    /\ res.s2 = Some(<<raw.beta[1]>>)
    /\ raw.alpha[2] # raw.alpha[1]

\* C3: after every successful decode by init_from_lapack, s1 and s2 are both
\* present, have the same length, and that length is min(m, k+l) - k.
C3_DecodedLength ==
    decode = "completed"
    => /\ res.s1 # None /\ res.s2 # None
       /\ Len(res.s1[1]) = Len(res.s2[1])
       /\ Len(res.s1[1]) = Min(DecM, DecK + DecL) - DecK

\* successful decodes of length 1 with k = 1
C3_Witness ==
    /\ decode = "completed"
    /\ DecK = 1
    /\ Len(res.s1[1]) = 1 /\ Len(res.s2[1]) = 1

\* C4: init_from_lapack completes only if every decoded index i satisfies
\* |s1[i]^2 + s2[i]^2 - 1| < 1e-5; if any decoded pair violates the bound the
\* decode fails fatally and no result is returned to the caller.
C4_IdentityValidated ==
    /\ decode = "completed"
       => \A i \in 1..Len(res.s1[1]) : WithinTolerance(res.s1[1][i], res.s2[1][i])
    /\ (/\ DecoderRan
        /\ \E i \in (DecK + 1)..Min(Min(DecM, DecK + DecL), Len(raw.alpha)) :
              ~WithinTolerance(raw.alpha[i], raw.beta[i]))
       => decode # "completed" /\ outcome = "panic"

\* a decode stopped by the assertion on a pair whose squares sum to 1 + 1.6e-5
C4_Witness ==
    /\ decode = "assert epsil < 1.0E-5"
    /\ outcome = "panic"
    /\ res.s1 = None
    /\ \E i \in (DecK + 1)..Min(DecM, DecK + DecL) :
          raw.alpha[i] = Scale /\ raw.beta[i] = 4

\* C5: after every successful decode, alpha restricted to
\* [k, min(m, k+l)) is non-increasing; any increase inside that range makes
\* the decode fail fatally.
C5_AlphaNonIncreasing ==
    /\ decode = "completed" => NonIncreasing(DecK, Min(DecM, DecK + DecL))
    /\ (/\ DecoderRan
        /\ Min(DecM, DecK + DecL) <= Len(raw.alpha)
        /\ ~NonIncreasing(DecK, Min(DecM, DecK + DecL)))
       => decode # "completed" /\ outcome = "panic"

\* a decode whose pairs pass validation stopped by the ordering check
C5_Witness ==
    /\ decode = "non sorted alpha"
    /\ outcome = "panic"
    /\ PairsPass(DecK, Min(DecM, DecK + DecL))

\* C6 (as stated): after every successful decode every entry of s1 and of s2
\* lies in the closed interval [0, 1], for any alpha and beta the primitive
\* may hand over.
C6_AsStated ==
    decode = "completed"
    => \A i \in 1..Len(res.s1[1]) :
          /\ 0 <= res.s1[1][i] /\ res.s1[1][i] <= Scale
          /\ 0 <= res.s2[1][i] /\ res.s2[1][i] <= Scale

\* C6 (amended): after every successful decode every entry x of s1 and of s2
\* satisfies x*x < 1 + 1e-5; the decoder does not check the sign of an entry.
C6_EntriesBounded ==
    decode = "completed"
    => \A i \in 1..Len(res.s1[1]) :
          /\ res.s1[1][i] * res.s1[1][i] < Scale * Scale + Epsil
          /\ res.s2[1][i] * res.s2[1][i] < Scale * Scale + Epsil

\* a successful decode that returns the entry -1 in s1
C6_Witness ==
    /\ decode = "completed"
    /\ \E i \in 1..Len(res.s1[1]) : res.s1[1][i] = -Scale

\* C7: whenever a solve (do_gsvd followed by its decoding) returns
\* successfully, the returned U and V are orthogonal within 1e-5: the solve
\* path validates orthogonality and returns no result whose U or V fails
\* that check.
C7_SolveReturnsOrthogonalFactors ==
    (\/ pc = "test_decoded"
     \/ (prob.kind = "GSvd" /\ pc = "done" /\ outcome = "ok"))
    => check_uv_orthogonal(res) = "Ok"

\* C8: if mat1 and mat2 have different column counts, the randomized solve
\* (GSvdApprox::new followed by do_approx_gsvd) fails with a
\* dimension-mismatch failure before any range approximation is run and
\* before the dense primitive is called.
C8_MismatchFailsBeforeApproximation ==
    (prob.kind = "GSvdApprox" /\ pc = "done" /\ mats.a.cols # mats.b.cols)
    => /\ outcome \in {"err", "panic"}
       /\ approx_calls = <<>>
       /\ prim_calls = <<>>

\* C9: GSvd::new rejects, fatally and at construction, every pair of matrices
\* whose column counts differ, so every GSvd on which do_gsvd can be called
\* has a.ncols = b.ncols and the primitive is never called with mismatched
\* column counts.
C9_GSvdColumnsAgree ==
    /\ prob.kind = "GSvd" => mats.a.cols = mats.b.cols
    /\ (prob.kind = "none" /\ pc = "done")
       => /\ mats.a.cols # mats.b.cols
          /\ outcome = "panic"
          /\ prim_calls = <<>>
    /\ prob.kind = "GSvd"
       => \A i \in 1..Len(prim_calls) :
             /\ prim_calls[i].n = mats.a.cols
             /\ prim_calls[i].n = mats.b.cols

\* GSvd::new has panicked on a 1-column and a 2-column matrix
C9_Witness ==
    /\ prob.kind = "none" /\ pc = "done"
    /\ outcome = "panic"
    /\ errmsg = "Error constructiing Gsvd problem"
    /\ mats.a.cols = 1 /\ mats.b.cols = 2

\* the trace holds neither a reduced-matrix product nor a primitive call
NoProductNoPrimitive ==
    /\ prim_calls = <<>>
    /\ \A i \in 1..Len(trace) :
          trace[i] \notin {"reduce_1", "reduce_2", "sggsvd3", "dggsvd3"}

\* C10: if the range approximator returns no basis for mat1, do_approx_gsvd
\* returns an error naming matrix 1; if it succeeds for mat1 and returns no
\* basis for mat2, the error names matrix 2; in both cases neither the
\* reduced-matrix product nor the dense primitive is executed.
C10_ApproximationFailureNamed ==
    (prob.kind = "GSvdApprox" /\ pc = "done")
    => /\ Len(approx_calls) >= 1
       /\ approx_calls[1].mat = 1
       /\ approx_calls[1].basis = None
          => /\ outcome = "err"
             /\ errmsg = "approximation of matrix 1 failed"
             /\ Len(approx_calls) = 1
             /\ NoProductNoPrimitive
       /\ (approx_calls[1].basis # None
           /\ Len(approx_calls) >= 2
           /\ approx_calls[2].basis = None)
          => /\ approx_calls[2].mat = 2
             /\ outcome = "err"
             /\ errmsg = "approximation of matrix 2 failed"
             /\ NoProductNoPrimitive
       /\ approx_calls[1].basis # None => Len(approx_calls) = 2

\* the approximation of mat1 succeeded, that of mat2 failed
C10_Witness ==
    /\ prob.kind = "GSvdApprox" /\ pc = "done"
    /\ Len(approx_calls) = 2
    /\ approx_calls[1].basis # None
    /\ approx_calls[2].basis = None
    /\ outcome = "err"

\* GSvd::do_gsvd has returned or panicked after calling the primitive
GsvdSolved == prob.kind = "GSvd" /\ pc = "done" /\ prim_calls # <<>>

\* the two messages with which do_gsvd reports that the primitive did not
\* converge (lines 358 and 397)
NonConvergenceMessages ==
    {"lapack for f64 failed to converge", "lapack for f32 failed to converge"}

\* C11: when the dense primitive returns status 1, do_gsvd returns an Err
\* value reporting non-convergence, without panicking and without running the
\* decoder init_from_lapack, in both the f32 and the f64 branch.
C11_NonConvergenceIsErr ==
    (GsvdSolved /\ raw.ires = 1)
    => /\ prob.F \in {"f32", "f64"}
       /\ outcome = "err"
       /\ errmsg \in NonConvergenceMessages
       /\ ~DecoderRan
       /\ \A i \in 1..Len(trace) : trace[i] # "init_from_lapack"
       /\ res = NewResult

\* the f64 branch has returned the non-convergence error
C11_Witness ==
    /\ GsvdSolved /\ raw.ires = 1
    /\ prob.F = "f64"
    /\ prim_calls[1].fn = "dggsvd3"
    /\ outcome = "err"

\* C12: when the dense primitive returns a negative status -j (j >= 1),
\* do_gsvd returns an Err value that identifies argument index j (the
\* positive index, not the raw negative code), without running the decoder.
C12_IllegalArgumentIsErr ==
    \A j \in 1..MaxInfo :
       (GsvdSolved /\ raw.ires = -j)
       => /\ outcome = "err"
          /\ errmsg = "argument " \o ToString(j) \o " had an illegal value"
          /\ ~DecoderRan
          /\ \A i \in 1..Len(trace) : trace[i] # "init_from_lapack"

\* the primitive has returned -2 and the error names argument 2
C12_Witness ==
    /\ GsvdSolved /\ raw.ires = -2
    /\ outcome = "err"
    /\ errmsg = "argument 2 had an illegal value"

\* C13: when the dense primitive returns a status that is neither 0, nor 1,
\* nor negative (any code > 1), do_gsvd treats it as a fatal
\* internal-contract violation: it never returns Ok for such a status.
C13_UndocumentedStatusIsFatal ==
    (GsvdSolved /\ raw.ires > 1)
    => /\ outcome # "ok"
       /\ outcome = "panic"

\* C14: every call to the dense primitive, from GSvd::do_gsvd and from
\* GSvdApprox::do_approx_gsvd, for all m, n, p >= 1, passes leading
\* dimensions with lda >= n, ldb >= n, ldu >= m, ldv >= p and ldq >= n, with
\* Q not requested (jobq = 'N') and U and V requested.
C14_LeadingDimensions ==
    prob.kind \in {"GSvd", "GSvdApprox"}
    => \A i \in 1..Len(prim_calls) :
          LET c == prim_calls[i]
          IN  (c.m >= 1 /\ c.n >= 1 /\ c.p >= 1)
              => /\ c.lda >= c.n
                 /\ c.ldb >= c.n
                 /\ c.ldu >= c.m
                 /\ c.ldv >= c.p
                 /\ c.ldq >= c.n
                 /\ c.jobq = "N"
                 /\ c.jobu = "U"
                 /\ c.jobv = "V"

\* C15: in GSvd::do_gsvd the alpha and beta buffers passed to the primitive
\* and handed to the decoder after a status-0 return have length n (the
\* common column count), so every index in [k, min(m, k+l)) that the decoder
\* reads is in bounds.
C15_CoefficientBuffersHoldN ==
    GsvdSolved
    => /\ \A i \in 1..Len(prim_calls) :
             prim_calls[i].alpha_len = prim_calls[i].n
       /\ DecoderRan
          => /\ Len(raw.alpha) = DecN
             /\ Len(raw.beta) = DecN
             /\ decode \notin {"slice out of bounds", "index out of bounds"}

\* both range approximations of do_approx_gsvd have returned a basis and the
\* primitive has been called on the reduced pair
ApproxSolved ==
    /\ prob.kind = "GSvdApprox" /\ pc = "done"
    /\ Len(approx_calls) = 2
    /\ approx_calls[1].basis # None
    /\ approx_calls[2].basis # None
    /\ prim_calls # <<>>

\* the raw output of the last primitive call passes the checks of the decoder
\* of gsvd.rs, run on the reduced dimensions of that call
RawPassesDecoder ==
    LET c == prim_calls[Len(prim_calls)]
    IN  init_from_lapack(c.m, c.n, c.p, raw.u, raw.v, raw.k, raw.l,
                         raw.alpha, raw.beta, log_debug).completed

\* C16: when both range approximations succeed and the dense primitive
\* returns status 0 with output that passes the decoder's checks,
\* GSvdApprox::do_approx_gsvd returns Ok with a GSvdResult in which U, V, s1
\* and s2 are all present.
C16_ApproxSolveReturnsResult ==
    (ApproxSolved /\ raw.ires = 0 /\ RawPassesDecoder)
    => /\ outcome = "ok"
       /\ res.v1 # None
       /\ res.v2 # None
       /\ res.s1 # None
       /\ res.s2 # None

\* the failures that arise in do_gsvd once the primitive has been called: a
\* nonzero status, or a decode that did not complete
GsvdFailure ==
    \/ raw.ires # 0
    \/ decode \notin {"none", "completed"}

\* C17: every failure that arises in do_gsvd after the problem has been
\* constructed (primitive failure status, cosine/sine identity violation,
\* alpha ordering violation) is delivered to the caller as an Err value;
\* do_gsvd panics on none of them.
C17_FailuresAreErr ==
    (GsvdSolved /\ GsvdFailure)
    => /\ outcome = "err"
       /\ outcome # "panic"

\* C18: do_gsvd calls the single-precision primitive exactly when the scalar
\* type is f32 and the double-precision primitive exactly when it is f64; for
\* any other scalar type it fails fatally without calling either primitive.
C18_PrimitiveByScalarType ==
    (prob.kind = "GSvd" /\ pc = "done")
    => /\ prob.F = "f32"
          => /\ Len(prim_calls) = 1
             /\ prim_calls[1].fn = "sggsvd3"
       /\ prob.F = "f64"
          => /\ Len(prim_calls) = 1
             /\ prim_calls[1].fn = "dggsvd3"
       /\ prob.F \notin {"f32", "f64"}
          => /\ prim_calls = <<>>
             /\ outcome = "panic"
             /\ \A i \in 1..Len(trace) : trace[i] \notin {"sggsvd3", "dggsvd3"}
       /\ \A i \in 1..Len(trace) :
             /\ trace[i] = "sggsvd3" => prob.F = "f32"
             /\ trace[i] = "dggsvd3" => prob.F = "f64"

\* do_gsvd has panicked for a scalar type that is neither f32 nor f64
C18_Witness ==
    /\ prob.kind = "GSvd" /\ pc = "done"
    /\ prob.F = "other"
    /\ outcome = "panic"
    /\ prim_calls = <<>>
    /\ mats.a.rows >= 1 /\ mats.a.cols >= 1

\* C19: within one do_approx_gsvd call the range approximators for mat1 and
\* mat2 are built with the same approximation budget, the single budget the
\* problem stores, which is not modified between the two approximations.
C19_OneBudget ==
    prob.kind = "GSvdApprox"
    => /\ \A i \in 1..Len(approx_calls) :
             /\ approx_calls[i].mat = i
             /\ approx_calls[i].budget = prob.precision
       /\ Len(approx_calls) <= 2
       /\ Len(approx_calls) = 2
          => approx_calls[1].budget = approx_calls[2].budget

\* both approximators have been built, with the budget 2 of the problem
C19_Witness ==
    /\ prob.kind = "GSvdApprox" /\ pc = "done"
    /\ prob.precision = 2
    /\ Len(approx_calls) = 2
    /\ approx_calls[1].budget = 2
    /\ approx_calls[2].budget = 2
    /\ approx_calls[2].basis # None

\* C20 (as stated): a solve leaves the caller's two input matrices unchanged,
\* by GSvdApprox::do_approx_gsvd and by GSvd::do_gsvd alike.
C20_AsStated ==
    prob.kind \in {"GSvd", "GSvdApprox"}
    => /\ mats.a.data = "input"
       /\ mats.b.data = "input"

\* C20 (amended): GSvdApprox::do_approx_gsvd leaves the caller's two
\* matrices unchanged, the primitive working on the reduced products;
\* GSvd::do_gsvd hands the primitive the buffers of the caller's own
\* matrices, which it holds by &mut, and after a status >= 0 every nonempty
\* one has been overwritten.
C20_OnlyApproxLeavesInputs ==
    /\ prob.kind = "GSvdApprox"
       => /\ mats.a.data = "input"
          /\ mats.b.data = "input"
    /\ (GsvdSolved /\ raw.ires >= 0)
       => /\ mats.a.rows * mats.a.cols > 0 => mats.a.data = "overwritten"
          /\ mats.b.rows * mats.b.cols > 0 => mats.b.data = "overwritten"
    /\ (GsvdSolved /\ raw.ires < 0)
       => /\ mats.a.data = "input"
          /\ mats.b.data = "input"

\* the primitive called by do_gsvd has returned 0 and both matrices of the
\* caller are overwritten
C20_Witness ==
    /\ GsvdSolved /\ raw.ires = 0
    /\ prim_calls[1].m >= 1 /\ prim_calls[1].p >= 1
    /\ mats.a.data = "overwritten"
    /\ mats.b.data = "overwritten"

\* the decode of the primitive's last output by gsvd.rs init_from_lapack, with
\* debug-level logging enabled or not
DecodeWith(dbg) ==
    init_from_lapack(DecM, DecN, mats.b.rows, raw.u, raw.v, raw.k, raw.l,
                     raw.alpha, raw.beta, dbg)

\* C21: for identical inputs (m, n, p, k, l, U, V, alpha, beta),
\* init_from_lapack has the same outcome (the same s1 and s2, or the same
\* failure) whether debug-level logging is enabled or disabled: the
\* diagnostic dump never changes control flow.
C21_DumpChangesNothing ==
    (prob.kind \in {"GSvd", "test"} /\ DecoderRan)
    => DecodeWith(TRUE) = DecodeWith(FALSE)

\* C25: the dense primitive is invoked at most once per do_gsvd call: after
\* any failure status do_gsvd returns without calling the primitive again.
C25_PrimitiveCalledOnce ==
    prob.kind = "GSvd"
    => /\ Len(prim_calls) <= 1
       /\ Cardinality({i \in 1..Len(trace) :
                          trace[i] \in {"sggsvd3", "dggsvd3"}}) <= 1
       /\ (pc = "done" /\ prob.F \in {"f32", "f64"}) => Len(prim_calls) = 1

\* do_gsvd has returned after the one call, which gave a failure status
C25_Witness ==
    /\ GsvdSolved
    /\ raw.ires # 0
    /\ Len(prim_calls) = 1
    /\ outcome = "err"

---------------------------------------------------------------------------
(* embed.rs: the embedder executable *)

\* the gsvd variables at rest, for the specifications of the other files
GsvdAtRest ==
    /\ pc = "idle"
    /\ mats = [a |-> Matrix(0, 0), b |-> Matrix(0, 0)]
    /\ prob = NoProb
    /\ log_debug = FALSE
    /\ raw = NoRaw
    /\ prim_calls = <<>>
    /\ approx_calls = <<>>
    /\ trace = <<>>
    /\ res = NewResult
    /\ decode = "none"
    /\ outcome = "none"
    /\ errmsg = ""
    /\ uv_check = "none"

gsvd_vars == <<pc, mats, prob, log_debug, raw, prim_calls, approx_calls, trace,
               res, decode, outcome, errmsg, uv_check>>

\* what a parse function does: returns Ok(val), returns Err, or ends the
\* process (std::process::exit or a panic)
ParsedOk(val) == [tag |-> "Ok", val |-> val]

ParsedErr(msg) == [tag |-> "Err", msg |-> msg]

ProcessEnds(how) == [tag |-> how]

\* the command lines that clap's get_matches accepts (lines 311-376): --csv
\* is required, as is one of the subcommands embedding and validation, each
\* of which requires hope or sketching; --approx is required by hope, whose
\* own subcommand (precision or rank) is not.  The numeric values that a
\* subcommand is given either all parse or hold one that does not.
CommandLines ==
    [csvfile : {"", "graph.csv"},
     top : {"embedding", "validation"},
     sub : {"hope", "sketching"},
     proximity : {"KATZ", "RPR", "ADA", "other"},
     hope_sub : {"precision", "rank", "none"},
     hope_values : {"parse", "bad"},
     sketching_values : {"parse", "bad dim", "bad decay"},
     validation_values : {"parse", "bad"}]

\* parse_sketching (lines 41-81): a decay that does not parse panics in
\* unwrap (line 60)
parse_sketching(args) ==
    IF args.sketching_values = "bad dim" THEN ParsedErr("error parsing dim")
    ELSE IF args.sketching_values = "bad decay" THEN ProcessEnds("panic")
    ELSE ParsedOk([sketch_size |-> "dim", parallel |-> TRUE])

\* parse_hope_args (lines 85-178)
parse_hope_args(args) ==
    IF args.proximity \notin {"KATZ", "RPR", "ADA"}
    THEN ProcessEnds("exit 1")
    ELSE IF args.hope_sub = "precision"
    THEN IF args.hope_values = "bad"
         THEN ParsedErr("could not parse Hope value")
         ELSE ParsedOk([mode |-> args.proximity, range |-> "EPSIL"])
    ELSE IF args.hope_sub = "rank"
    THEN IF args.hope_values = "bad"
         THEN ParsedErr("could not parse Hope value")
         ELSE ParsedOk([mode |-> args.proximity, range |-> "RANK"])
    ELSE ParsedErr("could not parse Hope parameters")

\* impl From<HopeParams> for EmbeddingParams (lines 189-193)
FromHopeParams(params) ==
    [mode |-> "Hope", hope |-> Some(params), sketching |-> None]

\* impl From<NodeSketchParams> for EmbeddingParams (lines 195-199)
FromNodeSketchParams(params) ==
    [mode |-> "Nodesketch", hope |-> None, sketching |-> Some(params)]

\* parse_embedding_cmd (lines 276-301)
parse_embedding_cmd(args) ==
    LET r == IF args.sub = "hope" THEN parse_hope_args(args)
             ELSE parse_sketching(args)
    IN  IF r.tag = "Ok"
        THEN ParsedOk(IF args.sub = "hope" THEN FromHopeParams(r.val)
                      ELSE FromNodeSketchParams(r.val))
        ELSE IF r.tag = "Err" THEN ParsedErr("parse_hope_args failed")
        ELSE r

\* parse_validation_cmd (lines 213-271)
parse_validation_cmd(args) ==
    IF args.validation_values = "bad"
    THEN ParsedErr("could not parse skip parameter")
    ELSE LET r == parse_embedding_cmd(args)
         IN  IF r.tag = "Ok"
             THEN ParsedOk([validation_params |-> "ValidationParams",
                            embedding_params |-> r.val])
             ELSE r

MainInit ==
    /\ GsvdAtRest
    /\ iso = NoIso
    /\ cli \in [pc : {"start"},
               args : CommandLines,
               hope_params : {None},
               embedding_parameters : {None},
               sketching_params : {None},
               validation_params : {None},
               ran : {<<>>},
               exit_code : {"none"}]

\* how main leaves: std::process::exit(1), a panic, or its normal end
MainEnds(how) ==
    cli' = [cli EXCEPT !.pc = "ended", !.exit_code = how]

\* main, lines 379-431: the csv file name, then the subcommand is decoded
main_decode_args ==
    /\ cli.pc = "start"
    /\ LET args == cli.args
           res1 == IF args.top = "validation" THEN parse_validation_cmd(args)
                   ELSE parse_embedding_cmd(args)
       IN  IF args.csvfile = "" THEN MainEnds("exit 1")
           ELSE IF res1.tag \notin {"Ok", "Err"} THEN MainEnds(res1.tag)
           ELSE cli' = [cli EXCEPT
                    !.pc = "decoded",
                    !.validation_params =
                        IF args.top = "validation" /\ res1.tag = "Ok"
                        THEN Some(res1.val.validation_params) ELSE None,
                    !.embedding_parameters =
                        IF res1.tag # "Ok" THEN None
                        ELSE IF args.top = "validation"
                        THEN Some(res1.val.embedding_params)
                        ELSE Some(res1.val)]
    /\ UNCHANGED <<gsvd_vars, iso>>

\* main, lines 436-446: the graph is loaded from the csv file
main_load_graph ==
    /\ cli.pc = "decoded"
    /\ \E loaded \in BOOLEAN :
          IF loaded
          THEN cli' = [cli EXCEPT !.pc = "loaded",
                                  !.ran = Append(@, "csv_to_trimat")]
          ELSE MainEnds("exit 1")
    /\ UNCHANGED <<gsvd_vars, iso>>

\* main, lines 450-502: the embedding asked for is run
main_embed ==
    /\ cli.pc = "loaded"
    /\ \E embedded \in BOOLEAN :
          IF cli.hope_params # None
          THEN IF cli.validation_params = None
               THEN IF embedded
                    THEN cli' = [cli EXCEPT !.pc = "ended", !.exit_code = "0",
                                            !.ran = Append(@, "Hope embedding")]
                    ELSE cli' = [cli EXCEPT !.pc = "ended", !.exit_code = "exit 1",
                                            !.ran = Append(@, "Hope embedding")]
               ELSE cli' = [cli EXCEPT !.pc = "ended", !.exit_code = "0",
                                       !.ran = Append(@, "Hope validation")]
          ELSE IF cli.sketching_params # None
          THEN IF cli.validation_params = None
               THEN IF embedded
                    THEN cli' = [cli EXCEPT !.pc = "ended", !.exit_code = "0",
                                            !.ran = Append(@, "Sketching embedding")]
                    ELSE cli' = [cli EXCEPT !.pc = "ended", !.exit_code = "exit 1",
                                            !.ran = Append(@, "Sketching embedding")]
               ELSE cli' = [cli EXCEPT !.pc = "ended", !.exit_code = "0",
                                       !.ran = Append(@, "Sketching validation")]
          ELSE cli' = [cli EXCEPT !.pc = "ended", !.exit_code = "0"]
    /\ UNCHANGED <<gsvd_vars, iso>>

MainNext ==
    \/ main_decode_args
    \/ main_load_graph
    \/ main_embed

MainSpec == MainInit /\ [][MainNext]_vars

\* the command line selects the hope embedding and parse_hope_args returns
\* Ok on it
HopeSelected ==
    /\ cli.pc # "none"
    /\ cli.args.sub = "hope"
    /\ parse_hope_args(cli.args).tag = "Ok"

\* C22: when the command line selects the hope embedding and its arguments
\* parse (parse_hope_args returns Ok), main, after loading the graph, reaches
\* the Hope branch and runs the Hope embedding, or the Hope validation when
\* validation was requested.
C22_HopeBranchReached ==
    (HopeSelected /\ cli.pc = "ended" /\ cli.ran # <<>>)
    => /\ Len(cli.ran) = 2
       /\ cli.ran[1] = "csv_to_trimat"
       /\ cli.ran[2] = IF cli.args.top = "validation"
                          /\ parse_validation_cmd(cli.args).tag = "Ok"
                       THEN "Hope validation" ELSE "Hope embedding"

---------------------------------------------------------------------------
(* pava.rs: Point and isotonic *)

\* Values of the float type T are modelled as exact fractions <<num, den>>
\* in lowest terms with den > 0.

RECURSIVE GCD(_, _)
GCD(a, b) == IF b = 0 THEN a ELSE GCD(b, a % b)

Frac(num, den) ==
    LET g == GCD(Abs(num), den)
    IN  <<num \div g, den \div g>>

FromInt(i) == <<i, 1>>

FAdd(a, b) == Frac(a[1] * b[2] + b[1] * a[2], a[2] * b[2])

FMul(a, b) == Frac(a[1] * b[1], a[2] * b[2])

FNeg(a) == <<-a[1], a[2]>>

FSub(a, b) == FAdd(a, FNeg(b))

\* a / b, for b > 0
FDiv(a, b) == Frac(a[1] * b[2], a[2] * b[1])

\* a < b
FLess(a, b) == a[1] * b[2] < b[1] * a[2]

\* Point::new_with_weight (lines 59-61); Point::new has weight 1
NewPoint(x, y, weight) ==
    [x |-> FromInt(x), y |-> FromInt(y), weight |-> FromInt(weight)]

\* merge_with that keeps the weight of self
merge_with_KeepWeight(self, other) ==
    LET w == FAdd(self.weight, other.weight)
    IN  [x |-> FDiv(FAdd(FMul(self.x, self.weight),
                         FMul(other.x, other.weight)), w),
         y |-> FDiv(FAdd(FMul(self.y, self.weight),
                         FMul(other.y, other.weight)), w),
         weight |-> self.weight]

\* Point::merge_with (lines 79-83): self after the call
merge_with(self, other) ==
    LET w == FAdd(self.weight, other.weight)
    IN  [x |-> FDiv(FAdd(FMul(self.x, self.weight),
                         FMul(other.x, other.weight)), w),
         y |-> FDiv(FAdd(FMul(self.y, self.weight),
                         FMul(other.y, other.weight)), w),
         weight |-> w]

Directions == {"Ascending", "Descending"}

\* Point { y: -p.y, ..*p } (lines 359, 384)
NegateY(p) == [p EXCEPT !.y = FNeg(@)]

\* the first match without the negation of Descending
Oriented_Copied(points, direction) == points

\* the first match of isotonic (lines 357-360)
Oriented(points, direction) ==
    IF direction = "Ascending" THEN points
    ELSE [i \in 1..Len(points) |-> NegateY(points[i])]

\* p inserted after the last element of the sorted s whose x is not greater
RECURSIVE InsertByX(_, _)
InsertByX(s, p) ==
    IF s = <<>> THEN <<p>>
    ELSE IF FLess(p.x, s[Len(s)].x)
         THEN Append(InsertByX(SubSeq(s, 1, Len(s) - 1), p), s[Len(s)])
         ELSE Append(s, p)

\* merged_points.sort_by_key(|point| OrderedFloat(point.x)) (line 362), a
\* stable sort
RECURSIVE sort_by_key(_)
sort_by_key(points) ==
    IF points = <<>> THEN <<>>
    ELSE InsertByX(sort_by_key(SubSeq(points, 1, Len(points) - 1)),
                   points[Len(points)])

\* the loop with the test iso_points.last().y <= new_point.y
RECURSIVE MergeLoop_NotStrict(_, _)
MergeLoop_NotStrict(iso_points, new_point) ==
    IF iso_points = <<>> \/ ~FLess(new_point.y, iso_points[Len(iso_points)].y)
    THEN Append(iso_points, new_point)
    ELSE MergeLoop_NotStrict(SubSeq(iso_points, 1, Len(iso_points) - 1),
                             merge_with(new_point, iso_points[Len(iso_points)]))

\* the loop of lines 370-378: iso_points when it breaks
RECURSIVE MergeLoop(_, _)
MergeLoop(iso_points, new_point) ==
    IF iso_points = <<>> \/ FLess(iso_points[Len(iso_points)].y, new_point.y)
    THEN Append(iso_points, new_point)
    ELSE MergeLoop(SubSeq(iso_points, 1, Len(iso_points) - 1),
                   merge_with(new_point, iso_points[Len(iso_points)]))

\* the body of the for loop (lines 366-379)
IsoStep(iso_points, point) ==
    IF iso_points = <<>> \/ FLess(iso_points[Len(iso_points)].y, point.y)
    THEN Append(iso_points, point)
    ELSE MergeLoop(iso_points, point)

\* the for loop of lines 365-380 over merged_points[i..]
RECURSIVE IsoLoop(_, _, _)
IsoLoop(merged_points, i, iso_points) ==
    IF i > Len(merged_points) THEN iso_points
    ELSE IsoLoop(merged_points, i + 1, IsoStep(iso_points, merged_points[i]))

\* isotonic (lines 355-386)
isotonic(points, direction) ==
    LET merged_points == sort_by_key(Oriented(points, direction))
        iso_points == IsoLoop(merged_points, 1, <<>>)
    IN  IF direction = "Ascending" THEN iso_points
        ELSE [i \in 1..Len(iso_points) |-> NegateY(iso_points[i])]

---------------------------------------------------------------------------
(* pava.rs: calls of isotonic, BlockPoint::merge and BlockPoint::is_ordered *)

MaxPoints == 3

XValues == {0, 1, 2}

YValues == {0, 1, 2, 5}

Weights == {1, 2}

\* the points a caller builds with Point::new_with_weight
InputPoints ==
    {NewPoint(x, y, w) : x \in XValues, y \in YValues, w \in Weights}

\* the slices of at most n points
PointLists(n) == UNION {[1..k -> InputPoints] : k \in 0..n}

PavaInit ==
    /\ GsvdAtRest
    /\ cli = NoCli
    /\ iso = [pc |-> "start"]

\* a call isotonic(points, direction), as the tests make (lines 409-465)
isotonic_call ==
    /\ iso.pc = "start"
    /\ \E points \in PointLists(MaxPoints), direction \in Directions :
          iso' = [pc |-> "isotonic",
                  input |-> points,
                  direction |-> direction,
                  output |-> isotonic(points, direction)]
    /\ UNCHANGED <<gsvd_vars, cli>>

\* a block of the points of sorted positions [first, last), with its centroid
\* (struct BlockPoint, lines 109-122)
BlockPoint(direction, first, last, centroid) ==
    [direction |-> direction, first |-> first, last |-> last,
     centroid |-> centroid]

\* merge with the centroid updated before the contiguity check
merge_CentroidFirst(self, other) ==
    IF self.last = other.first
    THEN [result |-> "Ok",
          self |-> [self EXCEPT !.last = other.last,
                                !.centroid = merge_with(@, other.centroid)]]
    ELSE IF self.first = other.last
    THEN [result |-> "Ok",
          self |-> [self EXCEPT !.first = other.first,
                                !.centroid = merge_with(@, other.centroid)]]
    ELSE [result |-> "Err",
          self |-> [self EXCEPT !.centroid = merge_with(@, other.centroid)]]

\* BlockPoint::merge (lines 140-156): the value returned and self after it
merge(self, other) ==
    IF self.last = other.first
    THEN [result |-> "Ok",
          self |-> [self EXCEPT !.last = other.last,
                                !.centroid = merge_with(@, other.centroid)]]
    ELSE IF self.first = other.last
    THEN [result |-> "Ok",
          self |-> [self EXCEPT !.first = other.first,
                                !.centroid = merge_with(@, other.centroid)]]
    ELSE [result |-> "Err", self |-> self]

\* BlockPoint::is_ordered (lines 175-187): "panic" when assert_eq! fails,
\* else the boolean returned
is_ordered(self, other) ==
    IF self.direction # other.direction THEN "panic"
    ELSE IF self.direction = "Ascending"
         THEN IF FLess(self.centroid.y, other.centroid.y) THEN "true" ELSE "false"
         ELSE IF FLess(self.centroid.y, other.centroid.y) THEN "true" ELSE "false"

\* the centroids of the blocks handed to merge and is_ordered
BlockCentroids == {NewPoint(x, y, 1) : x \in {0, 1}, y \in {0, 1, 2}}

\* the blocks [first, last) of sorted positions within 0..MaxPoints
Blocks ==
    {b \in [direction : Directions, first : 0..(MaxPoints - 1),
            last : 1..MaxPoints, centroid : BlockCentroids] : b.first < b.last}

\* a call self.merge(&other) on two blocks of one regression
merge_call ==
    /\ iso.pc = "start"
    /\ \E self \in Blocks, other \in Blocks :
          /\ self.direction = other.direction
          /\ iso' = [pc |-> "merge", self |-> self, other |-> other,
                     merged |-> merge(self, other)]
    /\ UNCHANGED <<gsvd_vars, cli>>

\* a call self.is_ordered(&other)
is_ordered_call ==
    /\ iso.pc = "start"
    /\ \E self \in Blocks, other \in Blocks :
          /\ self.first = 0 /\ self.last = other.first
          /\ iso' = [pc |-> "is_ordered", self |-> self, other |-> other,
                     ordered |-> is_ordered(self, other)]
    /\ UNCHANGED <<gsvd_vars, cli>>

PavaNext ==
    \/ isotonic_call
    \/ merge_call
    \/ is_ordered_call

PavaSpec == PavaInit /\ [][PavaNext]_vars

---------------------------------------------------------------------------
(* Claims on isotonic *)

\* x is non-decreasing along the points
XNonDecreasing(points) ==
    \A i \in 2..Len(points) : ~FLess(points[i].x, points[i - 1].x)

\* y is strictly increasing along the points
YIncreasing(points) ==
    \A i \in 2..Len(points) : FLess(points[i - 1].y, points[i].y)

\* y is strictly decreasing along the points
YDecreasing(points) ==
    \A i \in 2..Len(points) : FLess(points[i].y, points[i - 1].y)

\* C23: for Direction::Ascending and any finite input point list, isotonic
\* returns points ordered by non-decreasing x whose y values are strictly
\* increasing from one point to the next; an empty input gives an empty
\* output and a single point is returned unchanged.
C23_AscendingIsotonic ==
    (iso.pc = "isotonic" /\ iso.direction = "Ascending")
    => /\ XNonDecreasing(iso.output)
       /\ YIncreasing(iso.output)
       /\ iso.input = <<>> => iso.output = <<>>
       /\ Len(iso.input) = 1 => iso.output = iso.input

\* three points given out of x order have been merged into two
C23_Witness ==
    /\ iso.pc = "isotonic" /\ iso.direction = "Ascending"
    /\ Len(iso.input) = 3
    /\ Len(iso.output) = 2
    /\ ~XNonDecreasing(iso.input)

\* every y of the points negated
NegateAll(points) == [i \in 1..Len(points) |-> NegateY(points[i])]

\* C24: for Direction::Descending, isotonic returns points ordered by
\* non-decreasing x whose y values are strictly decreasing, and the result
\* equals the ascending regression of the input with every y negated, with
\* the y of each output point negated back.
C24_DescendingIsNegatedAscending ==
    (iso.pc = "isotonic" /\ iso.direction = "Descending")
    => /\ XNonDecreasing(iso.output)
       /\ YDecreasing(iso.output)
       /\ iso.output = NegateAll(isotonic(NegateAll(iso.input), "Ascending"))

\* a descending regression that merged two of three points with distinct y
C24_Witness ==
    /\ iso.pc = "isotonic" /\ iso.direction = "Descending"
    /\ Len(iso.input) = 3
    /\ Len(iso.output) = 2
    /\ iso.output # isotonic(iso.input, "Ascending")
    /\ \E i \in 1..3 : iso.input[i].y # FromInt(0)

---------------------------------------------------------------------------
(* Claims on BlockPoint and on the weights *)

\* C26: BlockPoint::is_ordered(self, other) returns true exactly when
\* self.centroid.y < other.centroid.y for Direction::Ascending, and exactly
\* when self.centroid.y > other.centroid.y for Direction::Descending.
C26_IsOrderedByDirection ==
    (iso.pc = "is_ordered" /\ iso.self.direction = iso.other.direction)
    => (iso.ordered = "true"
        <=> IF iso.self.direction = "Ascending"
            THEN FLess(iso.self.centroid.y, iso.other.centroid.y)
            ELSE FLess(iso.other.centroid.y, iso.self.centroid.y))

\* the sorted positions a block covers
Positions(block) == block.first..(block.last - 1)

\* C28: BlockPoint::merge returns Err when the two blocks are not contiguous
\* (self.last != other.first and self.first != other.last) and in that case
\* leaves self.first, self.last and self.centroid unchanged; when they are
\* contiguous, the resulting [first, last) is the union of the two ranges.
C28_MergeContiguous ==
    iso.pc = "merge"
    => IF iso.self.last # iso.other.first /\ iso.self.first # iso.other.last
       THEN /\ iso.merged.result = "Err"
            /\ iso.merged.self.first = iso.self.first
            /\ iso.merged.self.last = iso.self.last
            /\ iso.merged.self.centroid = iso.self.centroid
       ELSE /\ iso.merged.result = "Ok"
            /\ Positions(iso.merged.self)
                  = Positions(iso.self) \cup Positions(iso.other)
            /\ iso.merged.self.first < iso.merged.self.last

\* merge has refused two overlapping blocks whose centroids differ
C28_Witness ==
    /\ iso.pc = "merge"
    /\ iso.merged.result = "Err"
    /\ Positions(iso.self) \cap Positions(iso.other) # {}
    /\ iso.self.centroid # iso.other.centroid

\* the sum of a sequence of fractions
RECURSIVE FSum(_)
FSum(fs) ==
    IF fs = <<>> THEN FromInt(0)
    ELSE FAdd(fs[Len(fs)], FSum(SubSeq(fs, 1, Len(fs) - 1)))

TotalWeight(points) == FSum([i \in 1..Len(points) |-> points[i].weight])

\* the sums of weight * x and of weight * y
MomentX(points) ==
    FSum([i \in 1..Len(points) |-> FMul(points[i].weight, points[i].x)])

MomentY(points) ==
    FSum([i \in 1..Len(points) |-> FMul(points[i].weight, points[i].y)])

\* C29: isotonic preserves total weight: for any input, the sum of the
\* weights of the returned points equals the sum of the weights of the input
\* points, and every input point is merged into exactly one returned point
\* (the weighted sums of x and of y are those of the input).
C29_WeightPreserved ==
    iso.pc = "isotonic"
    => /\ TotalWeight(iso.output) = TotalWeight(iso.input)
       /\ MomentX(iso.output) = MomentX(iso.input)
       /\ MomentY(iso.output) = MomentY(iso.input)
       /\ Len(iso.output) <= Len(iso.input)

\* three points of weights 1 and 2 have been merged into one of weight 4
C29_Witness ==
    /\ iso.pc = "isotonic"
    /\ Len(iso.input) = 3
    /\ Len(iso.output) = 1
    /\ iso.output[1].weight = FromInt(4)

---------------------------------------------------------------------------
(* pava.rs: IsotonicRegression *)

MaxRegPoints == 4

EpsilPavaInv == 1000000

\* const EPSIL : f64 = 1.0E-6
EPSIL == <<1, EpsilPavaInv>>

\* the points of a regression, built with Point::new as in the tests
RegPoints == {NewPoint(x, y, 1) : x \in 0..(MaxRegPoints - 1), y \in YValues}

\* the inputs of a regression: every list of fewer than MaxRegPoints points,
\* and the lists of MaxRegPoints points of distinct x
RegPointLists ==
    UNION {[1..k -> RegPoints] : k \in 0..(MaxRegPoints - 1)}
    \cup {points \in [1..MaxRegPoints -> RegPoints] :
              \A i, j \in 1..MaxRegPoints : i # j => points[i].x # points[j].x}

\* the orders in which the positions 0..k-1 of k points can be listed
IndexOrders ==
    [k \in 0..MaxRegPoints |->
        {index \in [1..k -> 0..(k - 1)] :
            \A i, j \in 1..k : i # j => index[i] # index[j]}]

\* points.mergesort_indexed() (line 256): the sort indexes of the points
\* for the order of Point, which compares x (lines 88-92); positions count
\* from 0, and points of equal x come in either order
mergesort_indexed(points) ==
    {index \in IndexOrders[Len(points)] :
        \A i \in 2..Len(points) :
            ~FLess(points[index[i] + 1].x, points[index[i - 1] + 1].x)}

\* IsotonicRegression::new (lines 246-265), reached through new_ascending
\* and new_descending
IsotonicRegression_new ==
    /\ iso.pc = "start"
    /\ \E points \in RegPointLists, direction \in Directions :
          IF ~(Len(points) > 0)
          THEN iso' = [pc |-> "new_panicked", input |-> points,
                       direction |-> direction,
                       errmsg |-> "points is empty, can't create regression"]
          ELSE \E point_count \in {TotalWeight(points)},
                  iso_points \in {isotonic(points, direction)} :
                 \E centroid_point \in
                        {[x |-> FDiv(MomentX(points), point_count),
                          y |-> FDiv(MomentY(points), point_count),
                          weight |-> FromInt(1)]},
                    index \in mergesort_indexed(points) :
                   iso' = [pc |-> "regression",
                           input |-> points,
                           direction |-> direction,
                           points |-> iso_points,
                           index |-> index,
                           blocks |-> None,
                           centroid_point |-> centroid_point]
    /\ UNCHANGED <<gsvd_vars, cli>>

\* BlockPoint::new_from_point (lines 133-136); idx counts from 0
new_from_point(direction, points, index, idx) ==
    BlockPoint(direction, idx, idx + 1, points[index[idx + 1] + 1])

\* the loop of lines 319-329 from i on: the blocks when it ends, or the
\* index that is out of the bounds of points
RECURSIVE BuildBlocks(_, _, _)
BuildBlocks(self, i, blocks) ==
    IF i >= Len(self.points) THEN [panic |-> FALSE, blocks |-> blocks]
    ELSE IF self.index[i + 1] >= Len(self.points)
         THEN [panic |-> TRUE, blocks |-> blocks]
    ELSE LET new_block == new_from_point(self.direction, self.points,
                                         self.index, i)
         IN  IF i = 0
                \/ FLess(EPSIL, FSub(self.points[self.index[i + 1] + 1].x,
                                     self.points[self.index[i] + 1].x))
             THEN BuildBlocks(self, i + 1, Append(blocks, new_block))
             ELSE BuildBlocks(self, i + 1,
                      [blocks EXCEPT ![Len(blocks)] = merge(@, new_block).self])

\* the blocks without the one at position j, counted from 0
RemoveAt(blocks, j) ==
    SubSeq(blocks, 1, j) \o SubSeq(blocks, j + 2, Len(blocks))

\* the loop of lines 334-342, for j down to 1: the blocks when it ends
RECURSIVE MergePass(_, _)
MergePass(blocks, j) ==
    IF j < 1 THEN blocks
    ELSE IF is_ordered(blocks[j], blocks[j + 1]) # "true"
         THEN MergePass(RemoveAt([blocks EXCEPT ![j] = merge(@, blocks[j + 1]).self],
                                 j),
                        j - 1)
         ELSE MergePass(blocks, j - 1)

\* IsotonicRegression::do_isotonic (lines 310-346): the blocks are local and
\* dropped at the return; they are kept here to be looked at
do_isotonic ==
    /\ iso.pc = "regression"
    /\ IF iso.blocks # None
       THEN iso' = [iso EXCEPT !.pc = "regressed"] @@
                   [outcome |-> "err", errmsg |-> "regression already done!",
                    built |-> <<>>, merged |-> <<>>]
       ELSE \E built \in {BuildBlocks(iso, 0, <<>>)} :
              IF built.panic
              THEN iso' = [iso EXCEPT !.pc = "regressed"] @@
                          [outcome |-> "panic",
                           errmsg |-> "index out of bounds",
                           built |-> built.blocks, merged |-> <<>>]
              ELSE iso' = [iso EXCEPT !.pc = "regressed"] @@
                          [outcome |-> "err",
                           errmsg |-> "not yet implemented",
                           built |-> built.blocks,
                           merged |-> MergePass(built.blocks,
                                                Len(built.blocks) - 1)]
    /\ UNCHANGED <<gsvd_vars, cli>>

RegressionNext ==
    \/ IsotonicRegression_new
    \/ do_isotonic

RegressionSpec == PavaInit /\ [][RegressionNext]_vars

\* C27: when the merge pass of IsotonicRegression::do_isotonic finishes, no
\* ordering violation remains: for every pair of adjacent remaining blocks,
\* is_ordered(blocks[j-1], blocks[j]) holds, and the remaining blocks cover
\* contiguous, non-overlapping index ranges.
C27_NoViolationRemains ==
    (iso.pc = "regressed" /\ iso.outcome # "panic")
    => /\ \A j \in 2..Len(iso.merged) :
             /\ is_ordered(iso.merged[j - 1], iso.merged[j]) = "true"
             /\ iso.merged[j - 1].last = iso.merged[j].first
       /\ \A j \in 1..Len(iso.merged) : iso.merged[j].first < iso.merged[j].last
       /\ iso.merged[1].first = 0
       /\ iso.merged[Len(iso.merged)].last = Len(iso.points)

\* C30: in IsotonicRegression, index is a sorting permutation of the stored
\* points: for every i in 0..points.len(), index[i] is a valid position in
\* points, so every access points[index[i]] made by do_isotonic is in
\* bounds, for every input accepted by IsotonicRegression::new.
C30_IndexWithinPoints ==
    iso.pc \in {"regression", "regressed"}
    => /\ \A i \in 1..Len(iso.points) : iso.index[i] < Len(iso.points)
       /\ Len(iso.index) = Len(iso.points)
       /\ iso.pc = "regressed" => iso.outcome # "panic"

=============================================================================
